---- MODULE Spec2Model ----
(***************************************************************************)
(* Reference-test resolution of wptrunner/executors/base.py:               *)
(* RefTestImplementation.run_test, get_hash, is_pass and retake_screenshot *)
(* run by worker processes that share one screenshot_cache                 *)
(* (a multiprocessing Manager dict: every single dict operation is atomic, *)
(* a sequence of them is not).  A step of the model runs a worker from one *)
(* cache operation up to the next; a capture touches no shared state and   *)
(* is taken in the same step as the cache operation that follows it.       *)
(* Timeouts only scale the argument handed to executor.screenshot and are  *)
(* not modelled.  executor.screenshot is the environment: any call may     *)
(* fail, and a flaky URL may render to any artifact.                       *)
(*                                                                         *)
(* The second part is the executor side of the same file:                  *)
(* TestExecutor.run_test with result_from_exception, and                   *)
(* TestharnessResultConverter.__call__.  Both run inside one worker and    *)
(* touch nothing shared; each call is one step, and the state keeps the    *)
(* last call made, how it ended and what it sent to the runner.  do_test   *)
(* is abstract: what it returns or raises is the environment's choice.     *)
(***************************************************************************)
EXTENDS Naturals, Sequences, FiniteSets, TLC

(* ------------------------------ bounds -------------------------------- *)
\* largest reference tree (the test and its reference nodes) a session runs
MaxNodes == 3
\* most subtests a testharness payload reports
MaxSubtests == 2

(* --------------------------- value universe --------------------------- *)
\* the worker processes a session can have; each holds its own
\* RefTestImplementation and all share one screenshot_cache
Workers == {1, 2}
URLs == {"/t.html", "/a.html"}
Relations == {"==", "!="}
\* raw screenshots executor.screenshot can return
Artifacts == {"png1", "png2"}
\* (status, message) pairs executor.screenshot returns with success = False
Failures == {<<"TIMEOUT", "timed out">>, <<"ERROR", "no screenshot">>}
None == "None"

\* the URLs a session's browser may render differently from capture to capture
FlakyURLs == {"/a.html"}

\* what executor.screenshot returns for a URL that renders the same way
\* every time
Render == [u \in URLs |-> IF u = "/t.html" THEN "png1" ELSE "png2"]

\* hashlib.sha1(screenshot).hexdigest(): a digest, distinct per artifact
Sha1(screenshot) ==
    CASE screenshot = "png1" -> "0a4d"
      [] screenshot = "png2" -> "7c21"

(* --------------------------- reference trees -------------------------- *)
\* A node is [url, references]; references is the declared list of
\* (node, relation) items.  NodesOfSize(n): every tree of exactly n nodes.
RECURSIVE NodesOfSize(_), RefsOfSize(_)
NodesOfSize(n) ==
    { [url |-> u, references |-> rs] : u \in URLs, rs \in RefsOfSize(n - 1) }

RefsOfSize(m) ==
    IF m = 0 THEN { <<>> }
    ELSE UNION { { << <<c, r>> >> \o rest :
                     c \in NodesOfSize(k), r \in Relations,
                     rest \in RefsOfSize(m - k) } : k \in 1 .. m }

\* a reftest declares at least one reference; the tests are the trees rooted
\* at /t.html (their references may be any URL, /t.html included)
TestsOfSize(n) == { t \in NodesOfSize(n) : t.url = "/t.html" }
Tests == UNION { TestsOfSize(n) : n \in 2 .. MaxNodes }
\* tests run by sessions of several workers: one reference each
SharedTests == TestsOfSize(2)

(* ------------------------------- state -------------------------------- *)
VARIABLES
    workers,           \* the worker processes of this session
    manifest,          \* which tests this session hands to its workers
    flaky,             \* the URLs whose rendering changes between captures
    screenshot_cache,  \* url -> <<hash, screenshot or None>>, shared
    pc,                \* per worker: where its run_test stands
    test,              \* run_test: test
    stack,             \* run_test: stack
    nodes,             \* run_test: nodes
    relation,          \* run_test: relation
    hashes,            \* run_test: hashes
    screenshots,       \* run_test: screenshots
    i,                 \* run_test: index of the enumerate() loops (1, 2)
    shot,              \* (success, data) last returned by executor.screenshot
    hash_val,          \* retake_screenshot: hash_val read at line 248
    message,           \* self.message
    verdict,           \* what run_test returned
    evlog,             \* history: get_hash results and relation tests of this run
    popped,            \* history: the (nodes, relation) items popped in this run
    retaken,           \* history: (index, success) of this run's retake_screenshot calls
    captured,          \* history: (url, artifact) of every successful capture
    hashShots,         \* history: successful captures made by get_hash, per url
    debug,             \* __debug__: FALSE when the interpreter runs with -O
    call,              \* the last executor-side call: (what, test, input)
    outcome,           \* how that call ended: ("return", value) or ("raise", error)
    sent,              \* what that call sent through runner.send_message
    logged             \* what that call wrote through logger.debug

locals == <<pc, test, stack, nodes, relation, hashes, screenshots, i, shot, hash_val,
            message, verdict, evlog, popped, retaken>>
reftest == <<workers, manifest, flaky, screenshot_cache, locals, captured, hashShots>>
executor == <<debug, call, outcome, sent, logged>>
vars == <<reftest, executor>>

\* trees one node larger in which the first reference of the test has
\* references of its own and a second reference is declared after it
DeepTests ==
    { t \in TestsOfSize(MaxNodes + 1) :
        /\ Len(t.references) = 2
        /\ t.references[2][1].references = << >> }

\* the tests a worker of this session may be handed: a session of one worker
\* runs every tree of up to MaxNodes nodes or the deep trees, a session
\* whose workers run side by side runs the tests of one reference
Manifest ==
    CASE manifest = "Tests" -> Tests
      [] manifest = "SharedTests" -> SharedTests
      [] manifest = "DeepTests" -> DeepTests

Init ==
    /\ workers \in {{1}, Workers}
    /\ manifest = IF Cardinality(workers) = 1 THEN "Tests" ELSE "SharedTests"
    /\ flaky \in SUBSET FlakyURLs
    /\ screenshot_cache = << >>
    /\ pc = [w \in Workers |-> "idle"]
    /\ test = [w \in Workers |-> None]
    /\ stack = [w \in Workers |-> << >>]
    /\ nodes = [w \in Workers |-> None]
    /\ relation = [w \in Workers |-> None]
    /\ hashes = [w \in Workers |-> <<None, None>>]
    /\ screenshots = [w \in Workers |-> <<None, None>>]
    /\ i = [w \in Workers |-> 1]
    /\ shot = [w \in Workers |-> None]
    /\ hash_val = [w \in Workers |-> None]
    /\ message = [w \in Workers |-> None]
    /\ verdict = [w \in Workers |-> None]
    /\ evlog = [w \in Workers |-> << >>]
    /\ popped = [w \in Workers |-> << >>]
    /\ retaken = [w \in Workers |-> << >>]
    /\ captured = {}
    /\ hashShots = [u \in URLs |-> 0]
    /\ debug = TRUE
    /\ call = None
    /\ outcome = None
    /\ sent = << >>
    /\ logged = << >>

(* ------------------------- code, pure parts --------------------------- *)
\* is_pass with the "!=" clause testing equality
is_pass_BothEqual(lhs_hash, rhs_hash, rel) ==
    \/ (rel = "==" /\ lhs_hash = rhs_hash)
    \/ (rel = "!=" /\ lhs_hash = rhs_hash)

\* is_pass, lines 198-199 (the assert of line 196 holds: relation \in Relations)
is_pass(lhs_hash, rhs_hash, rel) ==
    \/ (rel = "==" /\ lhs_hash = rhs_hash)
    \/ (rel = "!=" /\ lhs_hash # rhs_hash)

\* get_hash, line 192: "%s %s" % (url, rv[1][0])
HashLine(url, hash_value) == url \o " " \o hash_value

\* is_pass, line 197: "Testing %s %s %s" % (lhs_hash, relation, rhs_hash)
TestingLine(lhs_hash, rel, rhs_hash) ==
    "Testing " \o lhs_hash \o " " \o rel \o " " \o rhs_hash

\* "\n".join(self.message), line 238
RECURSIVE Join(_)
Join(lines) ==
    IF lines = << >> THEN ""
    ELSE IF Len(lines) = 1 THEN lines[1]
    ELSE lines[1] \o "\n" \o Join(Tail(lines))

\* the pairs pushed without reversed(): the last-declared reference on top
PairsDeclared(node) ==
    [k \in 1 .. Len(node.references) |->
        << <<node, node.references[k][1]>>, node.references[k][2] >>]

\* every reference pushed twice
PairsTwice(node) ==
    LET refs == node.references
        n == Len(refs)
    IN  [k \in 1 .. 2 * n |->
           << <<node, refs[n + 1 - ((k + 1) \div 2)][1]>>,
              refs[n + 1 - ((k + 1) \div 2)][2] >>]

\* lines 207 and 223: ((node, item[0]), item[1]) for item in
\* reversed(node.references); list.pop() takes the LAST element, so the
\* first-declared reference ends up on top
Pairs(node) ==
    LET refs == node.references
        n == Len(refs)
    IN  [k \in 1 .. n |-> << <<node, refs[n + 1 - k][1]>>, refs[n + 1 - k][2] >>]

\* run_test without line 202: the lines of earlier runs stay
KeepMessage(w) == IF message[w] = None THEN << >> ELSE message[w]

\* line 202: self.message = []
NewMessage(w) == << >>

\* the raw screenshot stored where its digest belongs
NewEntryRaw(screenshot) == <<screenshot, None>>

\* the digest of the empty string stored for every capture
NewEntryConstant(screenshot) == <<"da39", None>>

\* line 186: the cache entry written after a successful capture
NewEntry(screenshot) == <<Sha1(screenshot), None>>

\* line 249: the cache entry written by retake_screenshot
RetakenEntry(on_file, data) == <<on_file, data>>

\* a cache that keeps only the entry written last
setitem_Alone(cache, url, entry) == [u \in {url} |-> entry]

\* self.screenshot_cache[url] = entry (lines 186 and 249): the dict with
\* that entry set and every other entry as it was
setitem(cache, url, entry) ==
    [u \in DOMAIN cache \cup {url} |-> IF u = url THEN entry ELSE cache[u]]

\* a failed capture reported as a plain ERROR
CaptureFailureAsError(data) == [status |-> "ERROR", message |-> data[2]]

\* line 217: the verdict of a failed capture
CaptureFailure(data) == [status |-> data[1], message |-> data[2]]

\* line 226
Passed == [status |-> "PASS", message |-> None]

\* the FAIL verdict without the relation in its log data
FailedNoRelation(pair, rel, shots, lines) ==
    [status |-> "FAIL",
     message |-> Join(lines),
     extra |-> [reftest_screenshots |->
                  << [url |-> pair[1].url, screenshot |-> shots[1]],
                     None,
                     [url |-> pair[2].url, screenshot |-> shots[2]] >>]]

\* the FAIL verdict with the two sides of the pair exchanged
FailedSwapped(pair, rel, shots, lines) ==
    [status |-> "FAIL",
     message |-> Join(lines),
     extra |-> [reftest_screenshots |->
                  << [url |-> pair[2].url, screenshot |-> shots[2]],
                     rel,
                     [url |-> pair[1].url, screenshot |-> shots[1]] >>]]

\* lines 234-239
Failed(pair, rel, shots, lines) ==
    [status |-> "FAIL",
     message |-> Join(lines),
     extra |-> [reftest_screenshots |->
                  << [url |-> pair[1].url, screenshot |-> shots[1]],
                     rel,
                     [url |-> pair[2].url, screenshot |-> shots[2]] >>]]

(* ------------------------ run_test, step by step ---------------------- *)
\* a queue in place of the stack: the oldest item is taken
PopFirst(w, st) ==
    LET top == st[1]
    IN  /\ stack' = [stack EXCEPT ![w] = Tail(st)]
        /\ nodes' = [nodes EXCEPT ![w] = top[1]]
        /\ relation' = [relation EXCEPT ![w] = top[2]]
        /\ hashes' = [hashes EXCEPT ![w] = <<None, None>>]
        /\ screenshots' = [screenshots EXCEPT ![w] = <<None, None>>]
        /\ i' = [i EXCEPT ![w] = 1]
        /\ pc' = [pc EXCEPT ![w] = "get_hash"]
        /\ popped' = [popped EXCEPT ![w] = Append(@, top)]

\* lines 208-212: the stack st is not empty; pop the next pair
Pop(w, st) ==
    LET top == st[Len(st)]
    IN  /\ stack' = [stack EXCEPT ![w] = SubSeq(st, 1, Len(st) - 1)]
        /\ nodes' = [nodes EXCEPT ![w] = top[1]]
        /\ relation' = [relation EXCEPT ![w] = top[2]]
        /\ hashes' = [hashes EXCEPT ![w] = <<None, None>>]
        /\ screenshots' = [screenshots EXCEPT ![w] = <<None, None>>]
        /\ i' = [i EXCEPT ![w] = 1]
        /\ pc' = [pc EXCEPT ![w] = "get_hash"]
        /\ popped' = [popped EXCEPT ![w] = Append(@, top)]

\* the loop of line 228 stopping after nodes[0]
RetakeFromFirstSide(w, k, shots, lines) ==
    LET todo == { j \in k .. 1 : shots[j] = None }
    IN  /\ screenshots' = [screenshots EXCEPT ![w] = shots]
        /\ IF todo # {}
           THEN /\ i' = [i EXCEPT ![w] = CHOOSE j \in todo : \A j2 \in todo : j <= j2]
                /\ pc' = [pc EXCEPT ![w] = "retake"]
                /\ UNCHANGED verdict
           ELSE /\ pc' = [pc EXCEPT ![w] = "done"]
                /\ verdict' = [verdict EXCEPT ![w] =
                                 Failed(nodes[w], relation[w], shots, lines)]
                /\ UNCHANGED i

\* lines 228-239 from index k on: the next side whose screenshot is None is
\* retaken; when none is left the FAIL verdict is returned
RetakeFrom(w, k, shots, lines) ==
    LET todo == { j \in k .. 2 : shots[j] = None }
    IN  /\ screenshots' = [screenshots EXCEPT ![w] = shots]
        /\ IF todo # {}
           THEN /\ i' = [i EXCEPT ![w] = CHOOSE j \in todo : \A j2 \in todo : j <= j2]
                /\ pc' = [pc EXCEPT ![w] = "retake"]
                /\ UNCHANGED verdict
           ELSE /\ pc' = [pc EXCEPT ![w] = "done"]
                /\ verdict' = [verdict EXCEPT ![w] =
                                 Failed(nodes[w], relation[w], shots, lines)]
                /\ UNCHANGED i

\* lines 216-226 once get_hash(url) has returned (True, data)
GotHash(w, url, data) ==
    LET h == [hashes[w] EXCEPT ![i[w]] = data[1]]
        s == [screenshots[w] EXCEPT ![i[w]] = data[2]]
        lines == Append(message[w], HashLine(url, data[1]))
        ev == Append(evlog[w], <<"hash", url, data[1]>>)
    IN  IF i[w] = 1
        THEN /\ hashes' = [hashes EXCEPT ![w] = h]
             /\ screenshots' = [screenshots EXCEPT ![w] = s]
             /\ i' = [i EXCEPT ![w] = 2]
             /\ pc' = [pc EXCEPT ![w] = "get_hash"]
             /\ message' = [message EXCEPT ![w] = lines]
             /\ evlog' = [evlog EXCEPT ![w] = ev]
             /\ UNCHANGED <<stack, nodes, relation, verdict, popped>>
        ELSE LET lines2 == Append(lines, TestingLine(h[1], relation[w], h[2]))
                 ev2 == Append(ev, <<"test", h[1], relation[w], h[2]>>)
                 pass == is_pass(h[1], h[2], relation[w])
                 st == IF pass THEN stack[w] \o Pairs(nodes[w][2]) ELSE stack[w]
             IN  /\ message' = [message EXCEPT ![w] = lines2]
                 /\ evlog' = [evlog EXCEPT ![w] = ev2]
                 /\ IF pass /\ nodes[w][2].references = << >>
                    THEN /\ pc' = [pc EXCEPT ![w] = "done"]
                         /\ verdict' = [verdict EXCEPT ![w] = Passed]
                         /\ hashes' = [hashes EXCEPT ![w] = h]
                         /\ screenshots' = [screenshots EXCEPT ![w] = s]
                         /\ UNCHANGED <<stack, nodes, relation, i, popped>>
                    ELSE IF st # << >>
                    THEN Pop(w, st) /\ UNCHANGED verdict
                    ELSE /\ stack' = [stack EXCEPT ![w] = st]
                         /\ hashes' = [hashes EXCEPT ![w] = h]
                         /\ UNCHANGED <<nodes, relation, popped>>
                         /\ RetakeFrom(w, 1, s, lines2)

\* the url get_hash or retake_screenshot is working on
Url(w) == nodes[w][i[w]].url

\* executor.screenshot(url, timeout) when it succeeds: the artifacts it may
\* return (line 178, line 242)
Screenshot(url) == IF url \in flaky THEN Artifacts ELSE {Render[url]}

\* run_test is called: lines 202-212
RunTest(w, t) ==
    /\ w \in workers
    /\ pc[w] = "idle"
    /\ message' = [message EXCEPT ![w] = NewMessage(w)]
    /\ evlog' = [evlog EXCEPT ![w] = << >>]
    /\ retaken' = [retaken EXCEPT ![w] = << >>]
    /\ verdict' = [verdict EXCEPT ![w] = None]
    /\ shot' = [shot EXCEPT ![w] = None]
    /\ hash_val' = [hash_val EXCEPT ![w] = None]
    /\ test' = [test EXCEPT ![w] = t]
    /\ Pop(w, Pairs(t))
    /\ UNCHANGED <<executor, workers, manifest, flaky, screenshot_cache, captured,
                   hashShots>>

\* get_hash, line 177: url not in self.screenshot_cache
GetHashLookup(w) ==
    /\ pc[w] = "get_hash"
    /\ pc' = [pc EXCEPT ![w] =
                IF Url(w) \notin DOMAIN screenshot_cache THEN "screenshot"
                ELSE "cached"]
    /\ UNCHANGED <<executor, workers, manifest, flaky, test, screenshot_cache, stack,
                   nodes, relation, hashes, screenshots, i, shot, hash_val,
                   message, verdict, evlog, popped, retaken, captured,
                   hashShots>>

\* get_hash, lines 178-188 and 192-193, then run_test up to the next cache
\* access: the capture, and on success the cache write of line 186
GetHashCapture(w) ==
    /\ pc[w] = "screenshot"
    /\ \/ \E screenshot \in Screenshot(Url(w)) :
            /\ shot' = [shot EXCEPT ![w] = <<TRUE, screenshot>>]
            /\ screenshot_cache' =
                 setitem(screenshot_cache, Url(w), NewEntry(screenshot))
            /\ GotHash(w, Url(w), <<Sha1(screenshot), screenshot>>)
            /\ captured' = captured \cup {<<Url(w), screenshot>>}
            /\ hashShots' = [hashShots EXCEPT ![Url(w)] = @ + 1]
       \/ \E data \in Failures :
            /\ shot' = [shot EXCEPT ![w] = <<FALSE, data>>]
            /\ pc' = [pc EXCEPT ![w] = "done"]
            /\ verdict' = [verdict EXCEPT ![w] = CaptureFailure(data)]
            /\ UNCHANGED <<screenshot_cache, stack, nodes, relation, hashes,
                           screenshots, i, message, evlog, popped, captured,
                           hashShots>>
    /\ UNCHANGED <<executor, workers, manifest, flaky, test, hash_val, retaken>>

\* get_hash, lines 190 and 192-193, then run_test up to the next cache access
GetHashCached(w) ==
    /\ pc[w] = "cached"
    /\ GotHash(w, Url(w), screenshot_cache[Url(w)])
    /\ UNCHANGED <<executor, workers, manifest, flaky, test, screenshot_cache, shot,
                   hash_val, retaken, captured, hashShots>>

\* retake_screenshot, lines 242-248: the capture and the read of the entry
RetakeCapture(w) ==
    /\ pc[w] = "retake"
    /\ \/ \E data \in Screenshot(Url(w)) :
            /\ shot' = [shot EXCEPT ![w] = <<TRUE, data>>]
            /\ hash_val' = [hash_val EXCEPT ![w] = screenshot_cache[Url(w)][1]]
            /\ pc' = [pc EXCEPT ![w] = "retake_store"]
            /\ captured' = captured \cup {<<Url(w), data>>}
            /\ retaken' = [retaken EXCEPT ![w] = Append(@, <<i[w], TRUE>>)]
            /\ UNCHANGED <<screenshots, i, verdict>>
       \/ \E data \in Failures :
            /\ shot' = [shot EXCEPT ![w] = <<FALSE, data>>]
            /\ retaken' = [retaken EXCEPT ![w] = Append(@, <<i[w], FALSE>>)]
            /\ RetakeFrom(w, i[w] + 1, screenshots[w], message[w])
            /\ UNCHANGED <<hash_val, captured>>
    /\ UNCHANGED <<executor, workers, manifest, flaky, test, screenshot_cache, stack,
                   nodes, relation, hashes, message, evlog, popped, hashShots>>

\* retake_screenshot, lines 249-250, then run_test lines 231-239
RetakeStore(w) ==
    /\ pc[w] = "retake_store"
    /\ screenshot_cache' =
         setitem(screenshot_cache, Url(w), RetakenEntry(hash_val[w], shot[w][2]))
    /\ RetakeFrom(w, i[w] + 1, [screenshots[w] EXCEPT ![i[w]] = shot[w][2]],
                  message[w])
    /\ UNCHANGED <<executor, workers, manifest, flaky, test, stack, nodes, relation,
                   hashes, shot, hash_val, message, evlog, popped, retaken,
                   captured, hashShots>>

\* run_test has returned: its frame is gone and the caller has the verdict;
\* self.message stays as it is
Return(w) ==
    /\ pc[w] = "done"
    /\ pc' = [pc EXCEPT ![w] = "idle"]
    /\ test' = [test EXCEPT ![w] = None]
    /\ stack' = [stack EXCEPT ![w] = << >>]
    /\ nodes' = [nodes EXCEPT ![w] = None]
    /\ relation' = [relation EXCEPT ![w] = None]
    /\ hashes' = [hashes EXCEPT ![w] = <<None, None>>]
    /\ screenshots' = [screenshots EXCEPT ![w] = <<None, None>>]
    /\ i' = [i EXCEPT ![w] = 1]
    /\ shot' = [shot EXCEPT ![w] = None]
    /\ hash_val' = [hash_val EXCEPT ![w] = None]
    /\ verdict' = [verdict EXCEPT ![w] = None]
    /\ evlog' = [evlog EXCEPT ![w] = << >>]
    /\ popped' = [popped EXCEPT ![w] = << >>]
    /\ retaken' = [retaken EXCEPT ![w] = << >>]
    /\ UNCHANGED <<executor, workers, manifest, flaky, screenshot_cache, message,
                   captured, hashShots>>

Next ==
    \E w \in Workers :
        \/ \E t \in Manifest : RunTest(w, t)
        \/ GetHashLookup(w)
        \/ GetHashCapture(w)
        \/ GetHashCached(w)
        \/ RetakeCapture(w)
        \/ RetakeStore(w)
        \/ Return(w)

Spec == Init /\ [][Next]_vars

\* a session of one worker that runs the deep trees
DeepInit ==
    /\ workers = {1}
    /\ manifest = "DeepTests"
    /\ flaky \in SUBSET FlakyURLs
    /\ screenshot_cache = << >>
    /\ pc = [w \in Workers |-> "idle"]
    /\ test = [w \in Workers |-> None]
    /\ stack = [w \in Workers |-> << >>]
    /\ nodes = [w \in Workers |-> None]
    /\ relation = [w \in Workers |-> None]
    /\ hashes = [w \in Workers |-> <<None, None>>]
    /\ screenshots = [w \in Workers |-> <<None, None>>]
    /\ i = [w \in Workers |-> 1]
    /\ shot = [w \in Workers |-> None]
    /\ hash_val = [w \in Workers |-> None]
    /\ message = [w \in Workers |-> None]
    /\ verdict = [w \in Workers |-> None]
    /\ evlog = [w \in Workers |-> << >>]
    /\ popped = [w \in Workers |-> << >>]
    /\ retaken = [w \in Workers |-> << >>]
    /\ captured = {}
    /\ hashShots = [u \in URLs |-> 0]
    /\ debug = TRUE
    /\ call = None
    /\ outcome = None
    /\ sent = << >>
    /\ logged = << >>

DeepSpec == DeepInit /\ [][Next]_vars


(* ------------------- the executor side of the file -------------------- *)
\* the Stop sentinel of ..testrunner (line 12): one object, unlike any result
Stop == <<"Stop">>

\* a call that returns nothing (run_test past line 122)
NoValue == << >>

\* an exception of a built-in class raised by the code itself
Error(class) == [is_exception |-> TRUE, class |-> class]

\* test.result_cls.statuses (line 133): the outcome codes of a testharness
\* test and those of a reftest
ResultStatuses == {{"OK", "ERROR", "TIMEOUT"}, {"PASS", "FAIL", "ERROR", "TIMEOUT"}}

\* the tests handed to an executor: test.url and test.result_cls.statuses
ExecutorTests == [url : URLs, statuses : ResultStatuses]

\* test.result_cls(status, message), lines 47 and 141
result_cls(status, msg) == [status |-> status, message |-> msg]

\* test.subtest_result_cls(name, status, message), lines 49-50
subtest_result_cls(name, status, msg) ==
    [name |-> name, status |-> status, message |-> msg]

\* lines 34-36
harness_codes == (0 :> "OK") @@ (1 :> "ERROR") @@ (2 :> "TIMEOUT")

\* lines 38-41
test_codes == (0 :> "PASS") @@ (1 :> "FAIL") @@ (2 :> "TIMEOUT") @@ (3 :> "NOTRUN")

\* the messages a payload carries: null or a text
Messages == {None, "boom"}

\* the entries of result["tests"]
Subtests == [name : {"s1", "s2"}, status : DOMAIN test_codes, message : Messages]

\* the lists of up to n subtests
RECURSIVE SubtestLists(_)
SubtestLists(n) ==
    IF n = 0 THEN { << >> }
    ELSE SubtestLists(n - 1)
         \cup { Append(l, x) : l \in { l2 \in SubtestLists(n - 1) : Len(l2) = n - 1 },
                               x \in Subtests }

\* the payloads a testharness page reports (JSON objects): the key
\* "message" may be present, with a text or null, or missing
Payloads ==
    [test : URLs, status : DOMAIN harness_codes, message : Messages,
     tests : SubtestLists(MaxSubtests)]
    \cup [test : URLs, status : DOMAIN harness_codes,
          tests : SubtestLists(MaxSubtests)]

\* TestharnessResultConverter.__call__, lines 43-50.  The assert statement
\* of line 45 is executed only when __debug__ is true; result["message"]
\* raises KeyError when the key is missing.
testharness_result_converter(test_, result) ==
    IF debug /\ result["test"] # test_.url
    THEN <<"raise", Error("AssertionError")>>
    ELSE IF "message" \notin DOMAIN result
    THEN <<"raise", Error("KeyError")>>
    ELSE <<"return",
           << result_cls(harness_codes[result["status"]], result["message"]),
              [k \in 1 .. Len(result["tests"]) |->
                 LET subtest == result["tests"][k]
                 IN  subtest_result_cls(subtest["name"],
                                        test_codes[subtest["status"]],
                                        subtest["message"])] >> >>

\* byte strings that are not ASCII (written as Python writes them)
NonAscii == {"caf\\xc3\\xa9"}

\* what do_test may raise: an object that is or is not an instance of
\* Exception (KeyboardInterrupt and SystemExit are not), with or without a
\* status attribute, with or without a message attribute
Raised ==
    [is_exception : BOOLEAN]
    \cup [is_exception : BOOLEAN, status : {"TIMEOUT", "PASS"}]
    \cup [is_exception : BOOLEAN, message : {"", "boom"} \cup NonAscii]
    \cup [is_exception : BOOLEAN, status : {"TIMEOUT", "PASS"},
          message : {"", "boom"} \cup NonAscii]

\* traceback.format_exc(e), line 140
format_exc == "Traceback (most recent call last): ..."

\* result_from_exception using whatever status the failure carries
result_from_exception_AnyStatus(test_, e) ==
    LET status == IF "status" \in DOMAIN e THEN e.status ELSE "ERROR"
        msg == IF "message" \in DOMAIN e THEN e.message ELSE ""
    IN  IF msg \in NonAscii
        THEN <<"raise", Error("UnicodeDecodeError")>>
        ELSE <<"return",
               << result_cls(status,
                             (IF msg # "" THEN msg \o "\n" ELSE "") \o format_exc),
                  << >> >> >>

\* result_from_exception, lines 132-141.  unicode() of line 137 decodes a
\* byte string as ASCII and raises UnicodeDecodeError when it is not
result_from_exception(test_, e) ==
    LET status == IF "status" \in DOMAIN e /\ e.status \in test_.statuses
                  THEN e.status ELSE "ERROR"
        msg == IF "message" \in DOMAIN e THEN e.message ELSE ""
    IN  IF msg \in NonAscii
        THEN <<"raise", Error("UnicodeDecodeError")>>
        ELSE <<"return",
               << result_cls(status,
                             (IF msg # "" THEN msg \o "\n" ELSE "") \o format_exc),
                  << >> >> >>

\* how do_test(test) may end (line 113): it returns a (result, sub-results)
\* pair or Stop, or it raises
DoTest(test_) ==
    { <<"return", <<result_cls(st, m), subs>> >> :
        st \in test_.statuses, m \in Messages,
        subs \in { << >>, << subtest_result_cls("s1", "FAIL", "boom") >> } }
    \cup { <<"return", Stop>> }
    \cup { <<"raise", e>> : e \in Raised }

\* TestExecutor.run_test, lines 112-122, with do_test ending as `ended`
ExecutorRunTest(test_, ended) ==
    /\ call = None
    /\ call' = <<"run_test", test_, ended>>
    /\ LET result == IF ended[1] = "return" THEN ended
                     ELSE IF ended[2].is_exception
                     THEN result_from_exception(test_, ended[2])
                     ELSE ended
       IN  IF result[1] = "raise"
           THEN /\ outcome' = result
                /\ sent' = << >>
                /\ logged' = << >>
           ELSE IF result[2] = Stop
           THEN /\ outcome' = <<"return", Stop>>
                /\ sent' = << >>
                /\ logged' = << >>
           ELSE /\ logged' = IF result[2][1].status = "ERROR"
                             THEN << result[2][1].message >> ELSE << >>
                /\ sent' = << <<"test_ended", test_, result[2]>> >>
                /\ outcome' = <<"return", NoValue>>
    /\ UNCHANGED <<reftest, debug>>

\* convert_result(test, result) of a TestharnessExecutor (line 145)
ConvertResult(test_, result) ==
    /\ call = None
    /\ call' = <<"convert_result", test_, result>>
    /\ outcome' = testharness_result_converter(test_, result)
    /\ UNCHANGED <<reftest, debug, sent, logged>>

\* the caller has taken what the call returned or raised
ExecutorReturn ==
    /\ call # None
    /\ call' = None
    /\ outcome' = None
    /\ sent' = << >>
    /\ logged' = << >>
    /\ UNCHANGED <<reftest, debug>>

\* an executor of a session that runs no reftest; the interpreter runs with
\* or without -O
ExecutorInit ==
    /\ workers = {}
    /\ manifest = "SharedTests"
    /\ flaky = {}
    /\ screenshot_cache = << >>
    /\ pc = [w \in Workers |-> "idle"]
    /\ test = [w \in Workers |-> None]
    /\ stack = [w \in Workers |-> << >>]
    /\ nodes = [w \in Workers |-> None]
    /\ relation = [w \in Workers |-> None]
    /\ hashes = [w \in Workers |-> <<None, None>>]
    /\ screenshots = [w \in Workers |-> <<None, None>>]
    /\ i = [w \in Workers |-> 1]
    /\ shot = [w \in Workers |-> None]
    /\ hash_val = [w \in Workers |-> None]
    /\ message = [w \in Workers |-> None]
    /\ verdict = [w \in Workers |-> None]
    /\ evlog = [w \in Workers |-> << >>]
    /\ popped = [w \in Workers |-> << >>]
    /\ retaken = [w \in Workers |-> << >>]
    /\ captured = {}
    /\ hashShots = [u \in URLs |-> 0]
    /\ debug \in BOOLEAN
    /\ call = None
    /\ outcome = None
    /\ sent = << >>
    /\ logged = << >>

\* a call is made when the one before has returned
ExecutorNext ==
    \/ /\ call = None
       /\ \E test_ \in ExecutorTests : \E ended \in DoTest(test_) :
             ExecutorRunTest(test_, ended)
    \/ /\ call = None
       /\ \E test_ \in ExecutorTests : \E result \in Payloads :
             ConvertResult(test_, result)
    \/ ExecutorReturn

ExecutorSpec == ExecutorInit /\ [][ExecutorNext]_vars

(* ------------------------- what the claims use ------------------------- *)
\* the signature of a URL that renders the same way every time
Sig(url) == Sha1(Render[url])

\* a relation of a reference tree holds on two signatures
Holds(rel, lhs, rhs) == IF rel = "==" THEN lhs = rhs ELSE lhs # rhs

\* some chain node -> c1 -> ... -> ck of declared references, every edge
\* holding, ends in a node without references
RECURSIVE ChainHolds(_)
ChainHolds(node) ==
    \E k \in 1 .. Len(node.references) :
        LET c == node.references[k][1]
            r == node.references[k][2]
        IN  /\ Holds(r, Sig(node.url), Sig(c.url))
            /\ (c.references = << >> \/ ChainHolds(c))

\* the chain of first-declared references holds down to a leaf
RECURSIVE FirstChainHolds(_)
FirstChainHolds(node) ==
    LET c == node.references[1][1]
        r == node.references[1][2]
    IN  /\ Holds(r, Sig(node.url), Sig(c.url))
        /\ (c.references = << >> \/ FirstChainHolds(c))

\* the get_hash results and relation tests along the chain of
\* first-declared references
RECURSIVE FirstChainLog(_)
FirstChainLog(node) ==
    IF node.references = << >> THEN << >>
    ELSE LET c == node.references[1][1]
             r == node.references[1][2]
         IN  << <<"hash", node.url, Sig(node.url)>>,
                <<"hash", c.url, Sig(c.url)>>,
                <<"test", Sig(node.url), r, Sig(c.url)>> >>
             \o FirstChainLog(c)

\* worker w has returned from run_test
Returned(w) == w \in workers /\ pc[w] = "done"

\* the verdict of w is that of a failed capture
CaptureFailed(w) == verdict[w].status \in { f[1] : f \in Failures }

\* C1: with every URL rendering the same way every time and every capture
\* succeeding, run_test returns PASS exactly when some chain of declared
\* references holds edge by edge down to a node without references, and
\* FAIL otherwise.
C1_PassIffChain ==
    \A w \in Workers :
        (Returned(w) /\ flaky = {} /\ ~CaptureFailed(w)) =>
            verdict[w].status = (IF ChainHolds(test[w]) THEN "PASS" ELSE "FAIL")

\* a PASS found by backtracking: the first-declared reference fails, a
\* later one holds
C1_Witness ==
    \E w \in Workers :
        /\ Returned(w) /\ flaky = {} /\ verdict[w].status = "PASS"
        /\ Len(test[w].references) >= 2
        /\ ~Holds(test[w].references[1][2], Sig(test[w].url),
                  Sig(test[w].references[1][1].url))
        /\ Len(evlog[w]) >= 6

\* C2: when the chain of first-declared references holds down to a leaf
\* (all captures succeeding), run_test returns PASS and the only get_hash
\* calls and relation tests made are those of that chain, in order: nothing
\* is evaluated for a later-declared sibling.
C2_ShortCircuit ==
    \A w \in Workers :
        (Returned(w) /\ flaky = {} /\ ~CaptureFailed(w)
           /\ FirstChainHolds(test[w])) =>
            /\ verdict[w].status = "PASS"
            /\ evlog[w] = FirstChainLog(test[w])

\* PASS on the first chain with a later sibling left on the stack
C2_Witness ==
    \E w \in Workers :
        /\ Returned(w) /\ flaky = {} /\ verdict[w].status = "PASS"
        /\ FirstChainHolds(test[w])
        /\ stack[w] # << >>
        /\ Len(test[w].references) >= 2

\* worker w takes a step in which its capture fails
CaptureFails(w) ==
    /\ pc[w] \in {"screenshot", "retake"}
    /\ <<pc[w], i[w]>>' # <<pc[w], i[w]>>
    /\ shot'[w] # None
    /\ shot'[w][1] = FALSE

\* C3: a capture failing inside get_hash ends run_test at once with exactly
\* the failure's status and message; the failing step writes no cache entry,
\* pops no pair and records no result, and the worker does nothing more
\* until run_test is called again.
C3_CaptureFailureIsFatal ==
    [][\A w \in Workers :
         /\ (pc[w] = "screenshot" /\ CaptureFails(w)) =>
               /\ pc'[w] = "done"
               /\ verdict'[w] = [status |-> shot'[w][2][1],
                                 message |-> shot'[w][2][2]]
               /\ screenshot_cache' = screenshot_cache
               /\ stack'[w] = stack[w]
               /\ nodes'[w] = nodes[w]
               /\ evlog'[w] = evlog[w]
               /\ captured' = captured
         /\ pc[w] = "done" =>
               \/ /\ pc'[w] = "done"
                  /\ verdict'[w] = verdict[w]
                  /\ stack'[w] = stack[w]
                  /\ shot'[w] = shot[w]
                  /\ evlog'[w] = evlog[w]
               \/ /\ pc'[w] = "idle"
                  /\ verdict'[w] = None
                  /\ shot'[w] = None
                  /\ evlog'[w] = << >>
      ]_vars

\* a capture failure returned while untried candidates remain on the stack
C3_Witness ==
    \E w \in Workers :
        /\ Returned(w) /\ CaptureFailed(w)
        /\ shot[w] # None /\ shot[w][1] = FALSE
        /\ verdict[w] = [status |-> shot[w][2][1], message |-> shot[w][2][2]]
        /\ stack[w] # << >>
        /\ evlog[w] # << >>

\* C4: a URL is captured by get_hash at most once in the whole session,
\* whatever the interleaving of the workers (counting the captures that
\* succeeded).
C4_CaptureAtMostOnce == \A u \in URLs : hashShots[u] <= 1

\* the signatures get_hash has returned to worker w for u in its current run
Returned_Signatures(w, u) ==
    { evlog[w][k][3] : k \in { j \in 1 .. Len(evlog[w]) :
                                 evlog[w][j][1] = "hash" /\ evlog[w][j][2] = u } }

\* C5: after the get_hash calls of two workers for the same uncached URL
\* have overlapped (both captured it), the two callers hold the same
\* signature, the one left in the cache.
C5_SameSignature ==
    \A u \in URLs : \A w1, w2 \in Workers :
        (w1 # w2 /\ hashShots[u] >= 2) =>
            \A h1 \in Returned_Signatures(w1, u) :
                \A h2 \in Returned_Signatures(w2, u) :
                    /\ h1 = h2
                    /\ screenshot_cache[u][1] = h1

\* worker w takes a step
Steps(w) == <<pc[w], i[w], nodes[w]>>' # <<pc[w], i[w], nodes[w]>>

\* C6: get_hash called in sequence (one worker, nobody in between): once a
\* call has stored its capture, a further call for the same URL makes no
\* capture, leaves the cache as it is and returns the stored signature; the
\* URL is captured by get_hash once, and all results for it within a run are
\* the same signature.
C6_Idempotent ==
    /\ [](workers = {1} =>
            /\ \A u \in URLs : hashShots[u] <= 1
            /\ \A w \in workers : \A j, k \in 1 .. Len(evlog[w]) :
                 (evlog[w][j][1] = "hash" /\ evlog[w][k][1] = "hash"
                    /\ evlog[w][j][2] = evlog[w][k][2]) =>
                     evlog[w][j][3] = evlog[w][k][3])
    /\ [][workers = {1} =>
            \A w \in workers :
              /\ (pc[w] = "get_hash" /\ Steps(w)
                    /\ Url(w) \in DOMAIN screenshot_cache) =>
                     /\ pc'[w] = "cached"
                     /\ screenshot_cache' = screenshot_cache
              /\ (pc[w] = "cached" /\ Steps(w)) =>
                     /\ screenshot_cache' = screenshot_cache
                     /\ captured' = captured
                     /\ hashShots' = hashShots
                     /\ shot'[w] = shot[w]
                     /\ evlog'[w][Len(evlog[w]) + 1] =
                          <<"hash", Url(w), screenshot_cache[Url(w)][1]>>
      ]_vars

\* within one run of a sequential session, a flaky URL captured by a first
\* get_hash call and answered from the cache by a second one
C6_Witness ==
    /\ workers = {1}
    /\ \E w \in workers : \E j, k \in 1 .. Len(evlog[w]) :
          /\ j < k
          /\ evlog[w][j][1] = "hash"
          /\ evlog[w][j] = evlog[w][k]
          /\ evlog[w][j][2] \in flaky
          /\ hashShots[evlog[w][j][2]] = 1
          /\ shot[w] # None /\ shot[w][1] = TRUE
          /\ evlog[w][j][3] = Sha1(shot[w][2])

\* C7: every cache entry holds the digest of an artifact that a successful
\* capture of its URL returned, and a step whose capture fails (in get_hash
\* or in retake_screenshot) leaves the cache exactly as it was.
C7_FailuresNeverCached ==
    /\ [](\A u \in DOMAIN screenshot_cache :
            \E a \in Artifacts :
                /\ <<u, a>> \in captured
                /\ screenshot_cache[u][1] = Sha1(a))
    /\ [][\A w \in Workers :
            CaptureFails(w) =>
                /\ screenshot_cache' = screenshot_cache
                /\ captured' = captured
      ]_vars

\* a capture has failed for a URL and the cache has no entry for it
C7_Witness ==
    \E w \in Workers :
        /\ Returned(w) /\ CaptureFailed(w)
        /\ shot[w] # None /\ shot[w][1] = FALSE
        /\ Url(w) \notin DOMAIN screenshot_cache
        /\ screenshot_cache # << >>

\* C8: a cache entry never pairs a signature with an artifact that does not
\* hash to it: retake_screenshot stores the artifact only when it matches
\* the signature on file.
C8_ArtifactMatchesSignature ==
    \A u \in DOMAIN screenshot_cache :
        screenshot_cache[u][2] # None =>
            Sha1(screenshot_cache[u][2]) = screenshot_cache[u][1]

\* "%s %s" and "Testing %s %s %s" of a logged event
EventLine(e) ==
    IF e[1] = "hash" THEN e[2] \o " " \o e[3]
    ELSE "Testing " \o e[2] \o " " \o e[3] \o " " \o e[4]

\* the lines of a log, one per event, separated by newlines
RECURSIVE LogText(_)
LogText(log) ==
    IF log = << >> THEN ""
    ELSE IF Len(log) = 1 THEN EventLine(log[1])
    ELSE LogText(SubSeq(log, 1, Len(log) - 1)) \o "\n" \o EventLine(log[Len(log)])

\* C9: when no chain of references holds (stable renders, no capture
\* failure) run_test returns FAIL, and the message of a FAIL lists every
\* (url, signature) get_hash obtained and every relation test of this run,
\* in evaluation order, and nothing of an earlier run.
C9_FailMessageIsThisRun ==
    \A w \in Workers :
        /\ (Returned(w) /\ flaky = {} /\ ~CaptureFailed(w)
              /\ ~ChainHolds(test[w])) => verdict[w].status = "FAIL"
        /\ (Returned(w) /\ verdict[w].status = "FAIL") =>
              verdict[w].message = LogText(evlog[w])

\* a FAIL of a worker that ran tests before: both sides of the last pair came
\* from the cache with their artifacts, which only earlier failing runs store
C9_Witness ==
    /\ workers = {1}
    /\ \E w \in workers :
          /\ Returned(w) /\ verdict[w].status = "FAIL"
          /\ shot[w] = None
          /\ Len(evlog[w]) >= 6

\* the verdict of w carries, in extra.reftest_screenshots, two URLs and a
\* relation
CarriesPair(w) ==
    /\ "extra" \in DOMAIN verdict[w]
    /\ LET log_data == verdict[w].extra.reftest_screenshots
       IN  /\ Len(log_data) = 3
           /\ log_data[2] \in Relations
           /\ log_data[1].url \in URLs
           /\ log_data[3].url \in URLs

\* C10 as stated: every verdict other than a capture failure carries a
\* non-null relation and exactly two compared URLs.
C10_EveryVerdictCarriesPair ==
    \A w \in Workers :
        (Returned(w) /\ ~CaptureFailed(w)) => CarriesPair(w)

\* C10, amended: every FAIL verdict carries a non-null relation and exactly
\* two compared URLs, those of the last pair evaluated; a PASS verdict
\* carries only its status and a null message.
C10_FailCarriesPair ==
    \A w \in Workers :
        /\ (Returned(w) /\ verdict[w].status = "FAIL") =>
              /\ CarriesPair(w)
              /\ verdict[w].extra.reftest_screenshots[2] = relation[w]
              /\ verdict[w].extra.reftest_screenshots[1].url = nodes[w][1].url
              /\ verdict[w].extra.reftest_screenshots[3].url = nodes[w][2].url
        /\ (Returned(w) /\ verdict[w].status = "PASS") =>
              (DOMAIN verdict[w] = {"status", "message"}
                 /\ verdict[w].message = None)

\* a FAIL returned after backtracking over two pairs
C10_Witness ==
    \E w \in Workers :
        /\ Returned(w) /\ verdict[w].status = "FAIL"
        /\ CarriesPair(w)
        /\ Len(evlog[w]) >= 6

\* the screenshot the FAIL verdict of w reports for side j of its pair
LogShot(w, j) ==
    verdict[w].extra.reftest_screenshots[IF j = 1 THEN 1 ELSE 3].screenshot

\* the retake_screenshot calls w has made for side j in this run
RetakeCalls(w, j) == { k \in 1 .. Len(retaken[w]) : retaken[w][k][1] = j }

\* C11: after the stack is exhausted retake_screenshot is called for exactly
\* the sides of the last pair whose artifact is absent (once each); whether
\* the upgrades succeed or fail run_test returns FAIL; a side whose upgrade
\* failed has a null screenshot in the verdict, a side whose upgrade
\* succeeded has the artifact retaken, and a failing upgrade neither ends
\* the run with the failure's status nor touches the cache.
C11_BestEffortUpgrade ==
    /\ [](\A w \in Workers :
            /\ (Returned(w) /\ retaken[w] # << >>) => verdict[w].status = "FAIL"
            /\ (Returned(w) /\ verdict[w].status = "FAIL") =>
                  \A j \in 1 .. 2 :
                     /\ Cardinality(RetakeCalls(w, j)) <= 1
                     /\ RetakeCalls(w, j) = {} => LogShot(w, j) # None
                     /\ \A k \in RetakeCalls(w, j) :
                           IF retaken[w][k][2]
                           THEN <<nodes[w][j].url, LogShot(w, j)>> \in captured
                           ELSE LogShot(w, j) = None)
    /\ [][\A w \in Workers :
            /\ (Steps(w) /\ pc'[w] = "retake") =>
                  screenshots'[w][i'[w]] = None
            /\ (pc[w] = "retake" /\ CaptureFails(w)) =>
                  /\ pc'[w] \in {"retake", "done"}
                  /\ screenshots'[w] = screenshots[w]
                  /\ screenshot_cache' = screenshot_cache
                  /\ pc'[w] = "done" => verdict'[w].status = "FAIL"
      ]_vars

\* a FAIL whose first side was upgraded and whose second side's upgrade
\* failed
C11_Witness ==
    \E w \in Workers :
        /\ Returned(w) /\ verdict[w].status = "FAIL"
        /\ retaken[w] = << <<1, TRUE>>, <<2, FALSE>> >>
        /\ LogShot(w, 1) \in Artifacts
        /\ LogShot(w, 2) = None
\* the last executor-side call was TestExecutor.run_test
RanTest == call # None /\ call[1] = "run_test"

\* the last executor-side call was the testharness converter
Converted == call # None /\ call[1] = "convert_result"

\* C12: every call of TestExecutor.run_test returns; when do_test returned
\* Stop it returns Stop and sends nothing, and in every other case, do_test
\* having returned or raised, it sends exactly one "test_ended" message
\* carrying the test and the (result, sub-results) pair.
C12_OneNotificationNothingEscapes ==
    RanTest =>
        /\ outcome[1] = "return"
        /\ IF call[3][1] = "return" /\ call[3][2] = Stop
           THEN outcome[2] = Stop /\ sent = << >>
           ELSE /\ outcome[2] = NoValue
                /\ Len(sent) = 1
                /\ sent[1][1] = "test_ended"
                /\ sent[1][2] = call[2]
                /\ Len(sent[1][3]) = 2
                /\ call[3][1] = "return" => sent[1][3] = call[3][2]

\* C13: when do_test raises and a result is reported, its status is the
\* failure's own status if it has one that is among the statuses of the
\* test's result type and ERROR otherwise, and the sub-result list is empty;
\* a raised Exception with an ASCII message is always reported.
C13_StatusFromException ==
    (RanTest /\ call[3][1] = "raise") =>
        LET e == call[3][2]
            ascii == "message" \in DOMAIN e => e.message \notin NonAscii
        IN  /\ (e.is_exception /\ ascii) => Len(sent) = 1
            /\ sent # << >> =>
                 /\ sent[1][3][1].status =
                      (IF "status" \in DOMAIN e /\ e.status \in call[2].statuses
                       THEN e.status ELSE "ERROR")
                 /\ sent[1][3][2] = << >>

\* a failure whose status is not one of the test's result type, reported
\* as ERROR
C13_Witness ==
    /\ RanTest /\ call[3][1] = "raise"
    /\ "status" \in DOMAIN call[3][2]
    /\ call[3][2].status = "PASS"
    /\ "PASS" \notin call[2].statuses
    /\ Len(sent) = 1
    /\ sent[1][3][1].status = "ERROR"

\* the overall outcome of a payload status
OverallOutcome(n) ==
    CASE n = 0 -> "OK" [] n = 1 -> "ERROR" [] n = 2 -> "TIMEOUT"

\* the outcome of a sub-test status
SubOutcome(n) ==
    CASE n = 0 -> "PASS" [] n = 1 -> "FAIL" [] n = 2 -> "TIMEOUT" [] n = 3 -> "NOTRUN"

\* C14: for a well-formed payload of the right target (status 0..2, with or
\* without an overall message, sub-tests of status 0..3) the converter
\* returns the overall outcome OK, ERROR or TIMEOUT with the payload's
\* message, and one sub-result per sub-test, in order, with PASS, FAIL,
\* TIMEOUT or NOTRUN and the sub-test's name and message.
C14_ConvertsWellFormed ==
    (Converted /\ call[3]["test"] = call[2].url) =>
        LET raw == call[3]
        IN  /\ outcome[1] = "return"
            /\ outcome[2][1] =
                 [status |-> OverallOutcome(raw.status),
                  message |-> IF "message" \in DOMAIN raw THEN raw.message
                              ELSE None]
            /\ outcome[2][2] =
                 [k \in 1 .. Len(raw.tests) |->
                    [name |-> raw.tests[k].name,
                     status |-> SubOutcome(raw.tests[k].status),
                     message |-> raw.tests[k].message]]

\* C15: for a payload whose target is not the test's URL the converter
\* returns nothing: it raises the consistency error.
C15_MismatchIsFatal ==
    (Converted /\ call[3]["test"] # call[2].url) =>
        /\ outcome[1] = "raise"
        /\ outcome[2] = Error("AssertionError")
\* the relation tests of the current run of w, in order
TestEvents(w) == SelectSeq(evlog[w], LAMBDA e : e[1] = "test")

\* the n-th pair evaluated in the current run of w has been evaluated and
\* its relation held
Held(w, n) ==
    /\ n <= Len(TestEvents(w))
    /\ Holds(TestEvents(w)[n][3], TestEvents(w)[n][2], TestEvents(w)[n][4])

\* a depth-first pre-order walk in declaration order: the pairs evaluated
\* from the k-th declared reference of node on, the next evaluation being
\* the n-th of the run.  A pair that held is followed by the pairs beneath
\* its candidate; the walk ends with the first pair that held on a
\* candidate without references; a pair not evaluated yet counts as not
\* holding.
RECURSIVE PreOrder(_, _, _, _)
PreOrder(w, node, k, n) ==
    IF k > Len(node.references)
    THEN [pairs |-> << >>, pass |-> FALSE, n |-> n]
    ELSE LET c == node.references[k][1]
             pair == << <<node, c>>, node.references[k][2] >>
             below == IF Held(w, n) /\ c.references # << >>
                      THEN PreOrder(w, c, 1, n + 1)
                      ELSE [pairs |-> << >>, pass |-> Held(w, n), n |-> n + 1]
         IN  IF below.pass
             THEN [pairs |-> <<pair>> \o below.pairs, pass |-> TRUE, n |-> below.n]
             ELSE LET rest == PreOrder(w, node, k + 1, below.n)
                  IN  [pairs |-> <<pair>> \o below.pairs \o rest.pairs,
                       pass |-> rest.pass, n |-> rest.n]

\* C16: the pairs run_test pops are, at every moment, the first pairs of
\* the depth-first pre-order walk of the tree in declaration order (a later
\* sibling comes only after the earlier sibling and every pair pushed
\* beneath it were evaluated without PASS), and a run that ends with PASS or
\* FAIL has popped exactly the pairs of that walk.
C16_DepthFirstPreOrder ==
    \A w \in Workers :
        pc[w] # "idle" =>
            LET order == PreOrder(w, test[w], 1, 1).pairs
            IN  /\ Len(popped[w]) <= Len(order)
                /\ popped[w] = SubSeq(order, 1, Len(popped[w]))
                /\ (Returned(w) /\ ~CaptureFailed(w)) => popped[w] = order

\* the first candidate held, the pair beneath it did not, and the second
\* candidate of the test was evaluated after both
C16_Witness ==
    \E w \in Workers :
        /\ Returned(w) /\ ~CaptureFailed(w)
        /\ Len(popped[w]) = 3
        /\ popped[w][1][1] = <<test[w], test[w].references[1][1]>>
        /\ popped[w][2][1][1] = test[w].references[1][1]
        /\ popped[w][3][1] = <<test[w], test[w].references[2][1]>>
        /\ Held(w, 1) /\ ~Held(w, 2)
\* C17: whenever run_test returns FAIL the stack is empty, every pair popped
\* was evaluated, the URLs and the relation of extra.reftest_screenshots are
\* those of the last pair popped, and the last three results of the run are
\* the signatures of that pair's two URLs and the test of its relation on
\* them, which did not hold.
C17_FailIsLastPair ==
    \A w \in Workers :
        (Returned(w) /\ verdict[w].status = "FAIL") =>
            LET last == popped[w][Len(popped[w])]
                log_data == verdict[w].extra.reftest_screenshots
                n == Len(evlog[w])
            IN  /\ stack[w] = << >>
                /\ Len(TestEvents(w)) = Len(popped[w])
                /\ log_data[1].url = last[1][1].url
                /\ log_data[2] = last[2]
                /\ log_data[3].url = last[1][2].url
                /\ n >= 3
                /\ evlog[w][n - 2][1] = "hash"
                /\ evlog[w][n - 2][2] = last[1][1].url
                /\ evlog[w][n - 1][1] = "hash"
                /\ evlog[w][n - 1][2] = last[1][2].url
                /\ evlog[w][n] = <<"test", evlog[w][n - 2][3], last[2],
                                   evlog[w][n - 1][3]>>
                /\ ~Holds(last[2], evlog[w][n - 2][3], evlog[w][n - 1][3])

\* a FAIL on a pair beneath the first candidate: the pair of the test itself
\* held and is not the one reported
C17_Witness ==
    \E w \in Workers :
        /\ Returned(w) /\ verdict[w].status = "FAIL"
        /\ Len(popped[w]) = 2
        /\ Held(w, 1)
        /\ popped[w][2][1][1] # test[w]
        /\ verdict[w].extra.reftest_screenshots[1].url = popped[w][2][1][1].url
        /\ popped[w][2][1][1].url # popped[w][2][1][2].url
\* the edges of the tree of node, from its k-th declared reference on
RECURSIVE Edges(_, _)
Edges(node, k) ==
    IF k > Len(node.references) THEN 0
    ELSE 1 + Edges(node.references[k][1], 1) + Edges(node, k + 1)

\* how many of those edges are the item e = ((parent, candidate), relation)
RECURSIVE EdgeCount(_, _, _)
EdgeCount(node, k, e) ==
    IF k > Len(node.references) THEN 0
    ELSE (IF << <<node, node.references[k][1]>>, node.references[k][2] >> = e
          THEN 1 ELSE 0)
         + EdgeCount(node.references[k][1], 1, e) + EdgeCount(node, k + 1, e)

\* how many times the current run of w has popped the item e
PopCount(w, e) == Cardinality({ j \in 1 .. Len(popped[w]) : popped[w][j] = e })

\* worker w executes the next step of its run_test
Step(w) ==
    \/ GetHashLookup(w)
    \/ GetHashCapture(w)
    \/ GetHashCached(w)
    \/ RetakeCapture(w)
    \/ RetakeStore(w)

\* worker w moves: every step of a worker changes its pc or its index i
Moves(w) == pc'[w] # pc[w] \/ i'[w] # i[w]

\* how far w is from the end of one loop iteration and of the upgrade loop
Phase(w) ==
    CASE pc[w] = "get_hash" -> IF i[w] = 1 THEN 8 ELSE 6
      [] pc[w] \in {"screenshot", "cached"} -> IF i[w] = 1 THEN 7 ELSE 5
      [] pc[w] = "retake" -> IF i[w] = 1 THEN 4 ELSE 2
      [] pc[w] = "retake_store" -> IF i[w] = 1 THEN 3 ELSE 1
      [] pc[w] = "done" -> 0

\* a bound on the steps the run of w has left: the edges not popped yet,
\* then the phase
Rank(w) == 9 * (Edges(test[w], 1) - Len(popped[w])) + Phase(w)

\* C18: a run of run_test ends with a verdict (until it has returned its
\* next step can always be taken, and every step brings it nearer to the
\* end); during the run no edge of the tree is popped more often than the
\* tree declares it, each pair popped is evaluated at most once, and the
\* pairs popped (the iterations of the loop) are never more than the edges
\* of the tree.
C18_TerminatesWithinEdges ==
    /\ [](\A w \in Workers :
            pc[w] # "idle" =>
                /\ Len(popped[w]) <= Edges(test[w], 1)
                /\ Len(TestEvents(w)) <= Len(popped[w])
                /\ \A j \in 1 .. Len(popped[w]) :
                     PopCount(w, popped[w][j]) <= EdgeCount(test[w], 1, popped[w][j])
                /\ IF pc[w] = "done" THEN "status" \in DOMAIN verdict[w]
                   ELSE ENABLED Step(w))
    /\ [][\A w \in Workers :
            (pc[w] \notin {"idle", "done"} /\ Moves(w)) =>
                /\ Len(popped'[w]) <= Edges(test[w], 1)
                /\ Rank(w)' < Rank(w)
      ]_vars

\* a run that popped every edge of its tree, the same item declared twice
\* among them, and returned
C18_Witness ==
    \E w \in Workers :
        /\ Returned(w)
        /\ Len(popped[w]) = Edges(test[w], 1)
        /\ Len(popped[w]) >= 2
        /\ popped[w][1] = popped[w][2]
\* C19: no step of any worker removes a key from screenshot_cache: a URL
\* that has an entry has one in every later state, and a URL for which
\* get_hash has returned a signature has an entry.
C19_KeysOnlyGrow ==
    /\ [][DOMAIN screenshot_cache \subseteq DOMAIN screenshot_cache']_vars
    /\ [](\A w \in Workers : \A k \in 1 .. Len(evlog[w]) :
            evlog[w][k][1] = "hash" => evlog[w][k][2] \in DOMAIN screenshot_cache)

\* two workers at work on a cache that holds both URLs, one entry already
\* rewritten by an upgrade
C19_Witness ==
    /\ workers = Workers
    /\ DOMAIN screenshot_cache = URLs
    /\ \E u \in URLs : screenshot_cache[u][2] # None
    /\ \A w \in Workers : pc[w] \notin {"idle", "done"}

\* C20: once an entry of screenshot_cache holds an artifact it holds one in
\* every later state: no step of any worker puts None back in the slot.
C20_ArtifactKept ==
    [][\A u \in DOMAIN screenshot_cache :
          screenshot_cache[u][2] # None =>
              /\ u \in DOMAIN screenshot_cache'
              /\ screenshot_cache'[u][2] # None
      ]_vars
====
